---- MODULE Spec2Model ----
(***************************************************************************)
(* Data-plane mediator of the qrexec agent (agent/qrexec-agent-data.c):    *)
(* handshake, the three dispatcher modes, the process_child_io readiness   *)
(* loop with its signal handlers, and the teardown of the three stdio fds. *)
(***************************************************************************)
EXTENDS Integers, Sequences, FiniteSets, TLC

(* ------------------------------ bounds -------------------------------- *)
MaxPeerVersion == 4      \* peer HELLO versions range over 0..MaxPeerVersion
MaxPeerMsgs == 2         \* frames the peer sends after its first message
MaxBytes == 1            \* bytes the local writer emits on stdout / stderr
MaxChunk == 2            \* chunk cap of one outbound data frame

(* --------------------------- program constants ------------------------ *)
QREXEC_PROTOCOL_V2 == 2
QREXEC_PROTOCOL_VERSION == 3
QREXEC_DATA_MIN_VERSION == QREXEC_PROTOCOL_V2
HdrSize == 8             \* sizeof(struct msg_header): u32 type, u32 len
InfoSize == 4            \* sizeof(struct peer_info): u32 version
StatusSize == 4          \* sizeof(int status)
RingSize == 24           \* outbound ring capacity of the data vchan
ChildPid == 5            \* pid the spawn helper reports for the child
NoFd == 0 - 1            \* the closed sentinel of the fd variables

MSG_EXEC_CMDLINE == "MSG_EXEC_CMDLINE"
MSG_JUST_EXEC == "MSG_JUST_EXEC"
MSG_SERVICE_CONNECT == "MSG_SERVICE_CONNECT"
MSG_HELLO == "MSG_HELLO"
MSG_DATA_STDIN == "MSG_DATA_STDIN"
MSG_DATA_STDOUT == "MSG_DATA_STDOUT"
MSG_DATA_STDERR == "MSG_DATA_STDERR"
MSG_DATA_EXIT_CODE == "MSG_DATA_EXIT_CODE"
MSG_UNKNOWN == "MSG_UNKNOWN"

Fds == 0 .. 6

VARIABLES
    pc,                      \* position of the mediator process
    type,                    \* mode handed to handle_new_process_common
    data_protocol_version,   \* result of handle_handshake
    exit_code,               \* handle_new_process_common's local
    child_process_pid,       \* file-scope
    stdout_msg_type,         \* file-scope
    child_exited,            \* file-scope, set by sigchld_handler
    stdio_socket_requested,  \* file-scope, set by sigusr1_handler
    child_process_status,    \* process_child_io local
    remote_process_status,   \* process_child_io local
    stdin_fd, stdout_fd, stderr_fd,   \* process_child_io's fd variables
    rdOut, rdErr,            \* FD_ISSET(stdout_fd / stderr_fd, &rdset)
    stdin_buf,               \* bytes in the stdin staging buffer
    fdtab,                   \* descriptor table of the mediator process
    nonblock,                \* descriptors whose file description is O_NONBLOCK
    vchanOpen,               \* libvchan_is_open
    vchanClosed,             \* libvchan_close has been called
    space,                   \* libvchan_buffer_space (outbound ring)
    inq,                     \* inbound frames not yet consumed
    peerLeft,                \* frames the peer may still send
    child,                   \* "none" | "running" | "zombie" | "reaped" | "detached"
    wstatus,                 \* wait status of the exited child
    sigchldPending,          \* SIGCHLD generated, not yet delivered
    usr1Armed,               \* SIGUSR1 disposition is sigusr1_handler
    outN, errN,              \* unread bytes in the stdout / stderr stream
    outLeft, errLeft,        \* bytes the local writer may still emit
    localClosed,             \* the local writer closed its stream ends
    helloSent, helloRecvd,   \* history: HELLO out / in
    dataSent,                \* history: a STDIN/STDOUT/STDERR frame went out
    exitCodes,               \* history: statuses of EXIT_CODE frames sent
    sentAfterExit,           \* history: a frame followed an EXIT_CODE frame
    dblClose,                \* history: close() hit a free descriptor
    closedNonblock,          \* history: the loop closed a non-blocking descriptor
    dropped,                 \* history: unread stdout/stderr bytes discarded
    spawnFailed,             \* history: execute_qubes_rpc_command failed
    loopRan,                 \* history: the while(1) loop was entered
    dupedOut,                \* history: stdout_fd was duplicated from stdin_fd
    remoteExited,            \* history: an inbound EXIT_CODE was consumed
    reaps                    \* history: assignments to child_process_status

progVars == <<pc, type, data_protocol_version, exit_code, child_process_pid,
              stdout_msg_type, child_exited, stdio_socket_requested,
              child_process_status, remote_process_status,
              stdin_fd, stdout_fd, stderr_fd, rdOut, rdErr, stdin_buf>>
envVars == <<fdtab, nonblock, vchanOpen, vchanClosed, space, inq, peerLeft, child, wstatus,
             sigchldPending, usr1Armed, outN, errN, outLeft, errLeft, localClosed>>
histVars == <<helloSent, helloRecvd, dataSent, exitCodes, sentAfterExit,
              dblClose, closedNonblock, dropped, spawnFailed, loopRan, dupedOut, remoteExited, reaps>>
vars == <<progVars, envVars, histVars>>

Min(a, b) == IF a < b THEN a ELSE b

Modes == {MSG_EXEC_CMDLINE, MSG_JUST_EXEC, MSG_SERVICE_CONNECT}

(* Frames on the wire: header fields plus the payload value that matters     *)
(* (the version of a HELLO, the status of an EXIT_CODE).                     *)
Frame(t, l, v) == [type |-> t, len |-> l, val |-> v]

\* what a peer may send first: a HELLO of any version, a HELLO of the wrong
\* length, or a frame that is no HELLO
FirstMsgs ==
    {Frame(MSG_HELLO, InfoSize, v) : v \in 0 .. MaxPeerVersion}
        \cup {Frame(MSG_HELLO, 0, QREXEC_PROTOCOL_VERSION),
              Frame(MSG_DATA_STDIN, InfoSize, QREXEC_PROTOCOL_VERSION)}

\* what a peer may send afterwards
DataMsgs ==
    {Frame(MSG_DATA_STDIN, 1, 0), Frame(MSG_DATA_STDIN, 0, 0),
     Frame(MSG_DATA_EXIT_CODE, StatusSize, 7),
     Frame(MSG_UNKNOWN, 0, 0)}

(* The stdio descriptors a caller or the spawn helper hands over.            *)
FdConfig(i, o, e, k) == [in |-> i, out |-> o, err |-> e, kind |-> k]
Configs ==
    {FdConfig(3, 4, 5, "pipe"),
     FdConfig(3, 3, NoFd, "sock"), FdConfig(1, 0, NoFd, "pipe")}

TabWith(c) ==
    [f \in Fds |->
        IF f \in {0, 1, 2} THEN "pipe"
        ELSE IF f \in {c.in, c.out, c.err} THEN c.kind
        ELSE "free"]

EmptyTab == [f \in Fds |-> IF f \in {0, 1, 2} THEN "pipe" ELSE "free"]

IsOpen(tab, fd) == fd \in Fds /\ tab[fd] # "free"

\* fcntl(fd, F_DUPFD_CLOEXEC, 3): lowest free descriptor >= 3, -1 on error
DupFd(tab, fd) ==
    LET free == {f \in Fds : f >= 3 /\ tab[f] = "free"}
    IN IF IsOpen(tab, fd) /\ free # {}
       THEN CHOOSE f \in free : \A g \in free : f <= g
       ELSE NoFd

(* The descriptor state the closing operations work on: the table, the       *)
(* double-close record, the non-blocking descriptors and the record of a     *)
(* close by the loop that hit a non-blocking descriptor.                     *)
FdState == [tab |-> fdtab, dbl |-> dblClose, nb |-> nonblock, cnb |-> closedNonblock]

\* close(fd)
DoClose(t, fd) ==
    [t EXCEPT !.tab = IF fd \in Fds THEN [@ EXCEPT ![fd] = "free"] ELSE @,
              !.dbl = @ \/ (fd \in Fds /\ t.tab[fd] = "free"),
              !.nb = @ \ {fd}]

\* set_nonblock(fd): O_NONBLOCK is set on the open descriptors named
SetNonblock(nb, tab, fds) == nb \cup {f \in fds \cap Fds : tab[f] # "free"}

\* set_block(fd): O_NONBLOCK belongs to the open file description, so it is
\* cleared for every descriptor that shares it
SetBlock(t, fds) == [t EXCEPT !.nb = @ \ fds]

\* the descriptors that share fd's file description: stdin_fd and stdout_fd
\* once one was duplicated from the other (lines 193, 241, 252)
Sharers(fd) ==
    IF dupedOut /\ fd \in {stdin_fd, stdout_fd} THEN {stdin_fd, stdout_fd} ELSE {fd}

\* a duplicate shares the file description of its original, mode included
DupMode(nb, from, to) == IF from \in nb THEN nb \cup {to} ELSE nb \ {to}

\* the loop is about to close or half-close fd: was it still non-blocking?
LoopCloses(t, fd) == [t EXCEPT !.cnb = @ \/ fd \in t.nb]

(* The directional close of lines 210-214, 325-329, 371-374, 381-384:        *)
(*   if (!child_process_pid || fd == special ||                              *)
(*       (shutdown(fd, how) == -1 && errno == ENOTSOCK)) close(fd);          *)
CloseToward(t, pid, fd, special) ==
    IF pid = 0 \/ fd = special THEN DoClose(t, fd)
    ELSE IF fd \in Fds /\ t.tab[fd] = "pipe" THEN DoClose(t, fd)
    ELSE IF fd \in Fds /\ t.tab[fd] \in {"sock", "shut"}
         THEN [t EXCEPT !.tab[fd] = "shut"]
    ELSE t

\* the peer's version is taken as it is, not capped by the local one
Negotiate_NoMin(hdr) ==
    IF hdr.type # MSG_HELLO \/ hdr.len # InfoSize THEN 0 - 1
    ELSE IF hdr.val < QREXEC_DATA_MIN_VERSION THEN 0 - 1
    ELSE hdr.val

\* handle_handshake's verdict on the peer's first header and peer-info
\* (lines 115-132)
Negotiate(hdr) ==
    IF hdr.type # MSG_HELLO \/ hdr.len # InfoSize THEN 0 - 1
    ELSE LET actual_version ==
                 IF hdr.val < QREXEC_PROTOCOL_VERSION THEN hdr.val
                 ELSE QREXEC_PROTOCOL_VERSION
         IN IF actual_version < QREXEC_DATA_MIN_VERSION THEN 0 - 1
            ELSE actual_version

\* wait-status encoding and the macros of <sys/wait.h>
WaitExited(code) == code * 256
WaitSignaled(sig, core) == sig + (IF core THEN 128 ELSE 0)
WTERMSIG(status) == status % 128
WIFSIGNALED(status) == WTERMSIG(status) # 0 /\ WTERMSIG(status) # 127
WEXITSTATUS(status) == (status \div 256) % 256
WaitStatuses ==
    {WaitExited(0), WaitExited(3), WaitSignaled(11, TRUE)}

\* the WIFSIGNALED branch is missing
ExitStatusOf_NoSignal(status) == WEXITSTATUS(status)

\* lines 203-206
ExitStatusOf(status) ==
    IF WIFSIGNALED(status) THEN 128 + WTERMSIG(status) ELSE WEXITSTATUS(status)

\* the error returns of handle_just_exec are lost
JustExecResult_AlwaysZero(hasColon, forkOk) == 0

\* handle_just_exec's return value (lines 140-149, 157)
JustExecResult(hasColon, forkOk) == IF hasColon /\ forkOk THEN 0 ELSE 0 - 1

Terminal == pc \in {"returned", "fatal", "aborted"}
\* the mediator can still observe what the peer and the local process do
Observing == pc \notin {"teardown", "close", "returned", "fatal", "aborted"}
\* Between pselect and the end of the dispatch the loop reads neither the
\* inbound queue before handle_remote_data, nor the signal flags, nor the
\* end-of-file state of a stream it did not find readable: what the peer or
\* the local process does there is seen at the next loop head, so those
\* steps are taken at the loop head or inside pselect.
EnvPoint == pc \in {"loop", "select"}

Init ==
    /\ type \in Modes
    /\ pc = "hs_send"
    /\ data_protocol_version = 0
    /\ exit_code = 0
    /\ child_process_pid = 0
    /\ stdout_msg_type = MSG_DATA_STDOUT
    /\ child_exited = 0
    /\ stdio_socket_requested = 0
    /\ child_process_status = 0 - 1
    /\ remote_process_status = 0 - 1
    /\ \E c \in Configs :
          IF type = MSG_SERVICE_CONNECT
          THEN /\ stdin_fd = c.in /\ stdout_fd = c.out /\ stderr_fd = c.err
               /\ fdtab = TabWith(c)
          ELSE /\ stdin_fd = NoFd /\ stdout_fd = NoFd /\ stderr_fd = NoFd
               /\ fdtab = EmptyTab
    /\ nonblock = {} /\ closedNonblock = FALSE
    /\ rdOut = FALSE /\ rdErr = FALSE
    /\ stdin_buf = 0
    /\ vchanOpen = TRUE /\ vchanClosed = FALSE
    /\ space = RingSize
    /\ inq = <<>>
    /\ peerLeft = MaxPeerMsgs + 1
    /\ child = "none" /\ wstatus = 0
    /\ sigchldPending = FALSE /\ usr1Armed = FALSE
    /\ outN = 0 /\ errN = 0 /\ outLeft = MaxBytes /\ errLeft = MaxBytes
    /\ localClosed = FALSE
    /\ helloSent = FALSE /\ helloRecvd = FALSE /\ dataSent = FALSE
    /\ exitCodes = <<>> /\ sentAfterExit = FALSE
    /\ dblClose = FALSE /\ dropped = FALSE
    /\ spawnFailed = FALSE /\ loopRan = FALSE /\ dupedOut = FALSE
    /\ remoteExited = FALSE /\ reaps = 0

(* ------------------------- the environment ---------------------------- *)

\* the peer puts a frame on the vchan
PeerSend ==
    /\ Observing /\ vchanOpen /\ peerLeft > 0
    /\ \E m \in (IF peerLeft = MaxPeerMsgs + 1 THEN FirstMsgs ELSE DataMsgs) :
          inq' = Append(inq, m)
    /\ peerLeft = MaxPeerMsgs + 1 \/ EnvPoint
    /\ peerLeft' = peerLeft - 1
    /\ UNCHANGED <<progVars, fdtab, nonblock, vchanOpen, vchanClosed, space, child, wstatus,
                   sigchldPending, usr1Armed, outN, errN, outLeft, errLeft,
                   localClosed, histVars>>

\* the peer consumes what the mediator sent
PeerDrain ==
    /\ Observing /\ vchanOpen /\ space < RingSize
    /\ space' = RingSize
    /\ UNCHANGED <<progVars, fdtab, nonblock, vchanOpen, vchanClosed, inq, peerLeft, child,
                   wstatus, sigchldPending, usr1Armed, outN, errN, outLeft, errLeft,
                   localClosed, histVars>>

\* the peer closes its end of the vchan
PeerClose ==
    /\ Observing /\ vchanOpen
    /\ vchanOpen' = FALSE
    /\ UNCHANGED <<progVars, fdtab, nonblock, vchanClosed, space, inq, peerLeft, child,
                   wstatus, sigchldPending, usr1Armed, outN, errN, outLeft, errLeft,
                   localClosed, histVars>>

(* --------------------------- handle_handshake -------------------------- *)

\* lines 94-107: send own HELLO header and peer-info
HandshakeSend ==
    /\ pc = "hs_send"
    /\ IF vchanOpen
       THEN /\ helloSent' = TRUE
            /\ space' = space - (HdrSize + InfoSize)
            /\ pc' = "hs_recv"
            /\ UNCHANGED data_protocol_version
       ELSE /\ data_protocol_version' = 0 - 1
            /\ pc' = "dispatch"
            /\ UNCHANGED <<helloSent, space>>
    /\ UNCHANGED <<type, exit_code, child_process_pid, stdout_msg_type, child_exited,
                   stdio_socket_requested, child_process_status,
                   remote_process_status, stdin_fd, stdout_fd, stderr_fd, rdOut, rdErr,
                   stdin_buf, fdtab, nonblock, vchanOpen, vchanClosed, inq, peerLeft, child,
                   wstatus, sigchldPending, usr1Armed, outN, errN, outLeft, errLeft,
                   localClosed, helloRecvd, dataSent, exitCodes, sentAfterExit,
                   dblClose, closedNonblock, dropped, spawnFailed, loopRan, dupedOut, remoteExited, reaps>>

\* lines 109-132: receive the peer's header and peer-info, negotiate
HandshakeRecv ==
    /\ pc = "hs_recv"
    /\ \/ /\ inq # <<>>
          /\ data_protocol_version' = Negotiate(Head(inq))
          /\ helloRecvd' = TRUE
          /\ inq' = Tail(inq)
       \/ /\ inq = <<>> /\ ~vchanOpen
          /\ data_protocol_version' = 0 - 1
          /\ UNCHANGED <<helloRecvd, inq>>
    /\ pc' = "dispatch"
    /\ UNCHANGED <<type, exit_code, child_process_pid, stdout_msg_type, child_exited,
                   stdio_socket_requested, child_process_status,
                   remote_process_status, stdin_fd, stdout_fd, stderr_fd, rdOut, rdErr,
                   stdin_buf, fdtab, nonblock, vchanOpen, vchanClosed, space, peerLeft, child,
                   wstatus, sigchldPending, usr1Armed, outN, errN, outLeft, errLeft,
                   localClosed, helloSent, dataSent, exitCodes, sentAfterExit,
                   dblClose, closedNonblock, dropped, spawnFailed, loopRan, dupedOut, remoteExited, reaps>>

(* --------------------- the local child / local writer ------------------ *)

\* the spawned child terminates: it becomes a zombie, the kernel raises
\* SIGCHLD, and the child's ends of the stdio streams are closed
ChildExit ==
    /\ child = "running" /\ (EnvPoint \/ pc = "pcio_entry")
    /\ \E s \in WaitStatuses : wstatus' = s
    /\ child' = "zombie"
    /\ sigchldPending' = TRUE
    /\ localClosed' = TRUE
    /\ UNCHANGED <<progVars, fdtab, nonblock, vchanOpen, vchanClosed, space, inq, peerLeft,
                   usr1Armed, outN, errN, outLeft, errLeft, histVars>>

\* the child is stopped (or continued) without exiting: the handlers are set
\* with signal(), so the kernel raises SIGCHLD for that too, and waitpid with
\* WNOHANG alone then reports "not yet exited"
ChildStops ==
    /\ child = "running" /\ EnvPoint /\ ~sigchldPending /\ child_exited = 0
    /\ sigchldPending' = TRUE
    /\ UNCHANGED <<progVars, fdtab, nonblock, vchanOpen, vchanClosed, space, inq, peerLeft,
                   child, wstatus, usr1Armed, outN, errN, outLeft, errLeft,
                   localClosed, histVars>>

HasWriter ==
    /\ EnvPoint /\ ~localClosed
    /\ child = "running" \/ type = MSG_SERVICE_CONNECT

\* the child (or, in service-connect mode, the local process) writes a byte
LocalWriteOut ==
    /\ HasWriter /\ outLeft > 0 /\ stdout_fd # NoFd
    /\ outN' = outN + 1 /\ outLeft' = outLeft - 1
    /\ UNCHANGED <<progVars, fdtab, nonblock, vchanOpen, vchanClosed, space, inq, peerLeft,
                   child, wstatus, sigchldPending, usr1Armed, errN, errLeft,
                   localClosed, histVars>>

LocalWriteErr ==
    /\ HasWriter /\ errLeft > 0 /\ stderr_fd # NoFd
    /\ errN' = errN + 1 /\ errLeft' = errLeft - 1
    /\ UNCHANGED <<progVars, fdtab, nonblock, vchanOpen, vchanClosed, space, inq, peerLeft,
                   child, wstatus, sigchldPending, usr1Armed, outN, outLeft,
                   localClosed, histVars>>

\* service-connect mode: the local process closes its ends of the pipes
LocalClose ==
    /\ EnvPoint /\ ~localClosed /\ type = MSG_SERVICE_CONNECT
    /\ localClosed' = TRUE
    /\ UNCHANGED <<progVars, fdtab, nonblock, vchanOpen, vchanClosed, space, inq, peerLeft,
                   child, wstatus, sigchldPending, usr1Armed, outN, errN, outLeft,
                   errLeft, histVars>>

(* ------------------------------ signals -------------------------------- *)

\* SIGCHLD is never blocked
SigchldUnblocked_Always == TRUE

\* SIGCHLD is blocked from line 187 on, except inside pselect (empty mask)
SigchldUnblocked == pc \in {"pcio_entry", "select"}

\* lines 66-69; a handler run inside pselect makes it fail with EINTR and the
\* loop continues (lines 291-293)
sigchld_handler ==
    /\ sigchldPending /\ SigchldUnblocked
    /\ child_exited' = 1
    /\ sigchldPending' = FALSE
    /\ pc' = IF pc = "select" THEN "loop" ELSE pc
    /\ UNCHANGED <<type, data_protocol_version, exit_code, child_process_pid,
                   stdout_msg_type, stdio_socket_requested, child_process_status,
                   remote_process_status, stdin_fd, stdout_fd, stderr_fd, rdOut, rdErr,
                   stdin_buf, fdtab, nonblock, vchanOpen, vchanClosed, space, inq, peerLeft,
                   child, wstatus, usr1Armed, outN, errN, outLeft, errLeft,
                   localClosed, histVars>>

\* lines 71-75; SIGUSR1 is never blocked, the local process sends it
sigusr1_handler ==
    /\ usr1Armed /\ EnvPoint
    /\ child = "running" \/ type = MSG_SERVICE_CONNECT
    /\ stdio_socket_requested' = 1
    /\ usr1Armed' = FALSE
    /\ pc' = IF pc = "select" THEN "loop" ELSE pc
    /\ UNCHANGED <<type, data_protocol_version, exit_code, child_process_pid,
                   stdout_msg_type, child_exited, child_process_status,
                   remote_process_status, stdin_fd, stdout_fd, stderr_fd, rdOut, rdErr,
                   stdin_buf, fdtab, nonblock, vchanOpen, vchanClosed, space, inq, peerLeft,
                   child, wstatus, sigchldPending, outN, errN, outLeft, errLeft,
                   localClosed, histVars>>

(* ------------------------------ dispatcher ----------------------------- *)

\* lines 450-453 and 471-475: prepare_child_env installs both handlers, then
\* the switch on the mode
PrepareAndSwitch ==
    /\ pc = "dispatch"
    /\ usr1Armed' = TRUE
    /\ IF type = MSG_SERVICE_CONNECT
       THEN /\ child_process_pid' = 0
            /\ stdout_msg_type' = MSG_DATA_STDIN
            /\ pc' = "pcio_entry"
       ELSE /\ pc' = IF type = MSG_JUST_EXEC THEN "just_exec" ELSE "spawn"
            /\ UNCHANGED <<child_process_pid, stdout_msg_type>>
    /\ UNCHANGED <<type, data_protocol_version, exit_code, child_exited,
                   stdio_socket_requested, child_process_status,
                   remote_process_status, stdin_fd, stdout_fd, stderr_fd, rdOut, rdErr,
                   stdin_buf, fdtab, nonblock, vchanOpen, vchanClosed, space, inq, peerLeft,
                   child, wstatus, sigchldPending, outN, errN, outLeft, errLeft,
                   localClosed, histVars>>

\* send_exit_code (lines 160-170) can proceed: libvchan_send blocks for ring
\* space while the vchan is open and fails once it is closed
CanSendExit == vchanOpen => space >= HdrSize + StatusSize

\* lines 454-456: send_exit_code(data_vchan, handle_just_exec(cmdline))
JustExec ==
    /\ pc = "just_exec" /\ CanSendExit
    /\ \E hasColon \in BOOLEAN, forkOk \in BOOLEAN :
          /\ child' = IF hasColon /\ forkOk THEN "detached" ELSE child
          /\ IF vchanOpen
             THEN /\ exitCodes' = Append(exitCodes, JustExecResult(hasColon, forkOk))
                  /\ sentAfterExit' = (sentAfterExit \/ exitCodes # <<>>)
                  /\ space' = space - (HdrSize + StatusSize)
                  /\ pc' = "close"
             ELSE /\ pc' = "fatal"
                  /\ UNCHANGED <<exitCodes, sentAfterExit, space>>
    /\ UNCHANGED <<type, data_protocol_version, exit_code, child_process_pid,
                   stdout_msg_type, child_exited, stdio_socket_requested,
                   child_process_status, remote_process_status, stdin_fd, stdout_fd,
                   stderr_fd, rdOut, rdErr, stdin_buf, fdtab, nonblock, vchanOpen, vchanClosed,
                   inq, peerLeft, wstatus, sigchldPending, usr1Armed, outN, errN,
                   outLeft, errLeft, localClosed, helloSent, helloRecvd, dataSent,
                   dblClose, closedNonblock, dropped, spawnFailed, loopRan, dupedOut, remoteExited, reaps>>

\* what pid holds after a failed execute_qubes_rpc_command: never written
GarbagePids == {0 - 1, 0, 7}

\* what Spawn leaves alone
SpawnFrame ==
    UNCHANGED <<type, data_protocol_version, exit_code, stdout_msg_type,
                child_exited, stdio_socket_requested, child_process_status,
                remote_process_status, rdOut, rdErr, stdin_buf, vchanOpen,
                vchanClosed, space, inq, peerLeft, wstatus, sigchldPending,
                usr1Armed, outN, errN, outLeft, errLeft, localClosed, helloSent,
                helloRecvd, dataSent, exitCodes, sentAfterExit, dblClose, closedNonblock, dropped,
                loopRan, dupedOut, remoteExited, reaps>>

\* lines 460-464, execute_qubes_rpc_command succeeded: the helper reports the
\* child's pid and stdio descriptors; child_process_pid = pid
SpawnOk ==
    /\ pc = "spawn"
    /\ \E c \in Configs :
          /\ child_process_pid' = ChildPid
          /\ stdin_fd' = c.in /\ stdout_fd' = c.out /\ stderr_fd' = c.err
          /\ fdtab' = TabWith(c)
    /\ nonblock' = {}
    /\ child' = "running"
    /\ pc' = "pcio_entry"
    /\ UNCHANGED spawnFailed
    /\ SpawnFrame

\* lines 460-464, execute_qubes_rpc_command failed: the failure is only
\* logged; pid was never written and the fds are as handle_new_process
\* passed them (lines 505-507)
SpawnFail ==
    /\ pc = "spawn"
    /\ \E g \in GarbagePids : child_process_pid' = g
    /\ spawnFailed' = TRUE
    /\ pc' = "pcio_entry"
    /\ UNCHANGED <<stdin_fd, stdout_fd, stderr_fd, fdtab, nonblock, child>>
    /\ SpawnFrame

\* line 482-483: libvchan_close, return exit_code
CloseVchan ==
    /\ pc = "close"
    /\ vchanClosed' = TRUE
    /\ vchanOpen' = FALSE
    /\ pc' = "returned"
    /\ UNCHANGED <<type, data_protocol_version, exit_code, child_process_pid,
                   stdout_msg_type, child_exited, stdio_socket_requested,
                   child_process_status, remote_process_status, stdin_fd, stdout_fd,
                   stderr_fd, rdOut, rdErr, stdin_buf, fdtab, nonblock, space, inq, peerLeft,
                   child, wstatus, sigchldPending, usr1Armed, outN, errN, outLeft,
                   errLeft, localClosed, histVars>>

(* --------------------------- process_child_io -------------------------- *)

\* kind of a descriptor duplicated from fd
DupKind(tab, fd) == IF tab[fd] = "pipe" THEN "pipe" ELSE "sock"

\* lines 193-194: the duplication failed, abort()
EntryDupFails(nf) == nf < 0

\* lines 179-196: initial statuses, SIGCHLD blocked, fds made non-blocking,
\* stdout_fd duplicated when it is the same descriptor as stdin_fd
PcioEntry ==
    /\ pc = "pcio_entry"
    /\ child_process_status' = IF child_process_pid > 0 THEN 0 - 1 ELSE 0
    /\ remote_process_status' = 0 - 1
    /\ IF stdout_fd # stdin_fd
       THEN /\ pc' = "loop" /\ loopRan' = TRUE
            /\ UNCHANGED <<stdout_fd, fdtab>>
       ELSE LET nf == DupFd(fdtab, stdin_fd)
            IN IF EntryDupFails(nf)
               THEN /\ pc' = "aborted"
                    /\ UNCHANGED <<stdout_fd, fdtab, loopRan>>
               ELSE /\ stdout_fd' = nf
                    /\ fdtab' = IF nf \in Fds
                                THEN [fdtab EXCEPT ![nf] = DupKind(fdtab, stdin_fd)]
                                ELSE fdtab
                    /\ pc' = "loop" /\ loopRan' = TRUE
    /\ dupedOut' = (stdout_fd' # stdout_fd)
    /\ nonblock' = SetNonblock(nonblock, fdtab', {stdin_fd, stdout_fd', stderr_fd})
    /\ UNCHANGED <<type, data_protocol_version, exit_code, child_process_pid,
                   stdout_msg_type, child_exited, stdio_socket_requested, stdin_fd,
                   stderr_fd, rdOut, rdErr, stdin_buf, vchanOpen, vchanClosed, space,
                   inq, peerLeft, child, wstatus, sigchldPending, usr1Armed, outN, errN,
                   outLeft, errLeft, localClosed, helloSent, helloRecvd, dataSent,
                   exitCodes, sentAfterExit, dblClose, closedNonblock, dropped, spawnFailed,
                   remoteExited, reaps>>

\* waitpid(pid, &status, WNOHANG) > 0
WaitPidReaps(pid) == pid = ChildPid /\ child = "zombie"

\* the test forgets that stdout_fd and stderr_fd must be closed
AllDone_IgnoresOutputs(pid, cstatus, rstatus, in, out, err) ==
    /\ pid = 0 \/ cstatus > 0 - 1
    /\ pid # 0 \/ rstatus > 0 - 1
    /\ in = NoFd

\* lines 222-224: the "all done" test
AllDone(pid, cstatus, rstatus, in, out, err) ==
    /\ pid = 0 \/ cstatus > 0 - 1
    /\ pid # 0 \/ rstatus > 0 - 1
    /\ in = NoFd /\ out = NoFd /\ err = NoFd

\* the test forgets the bytes still staged for the child's stdin
Disconnected_IgnoresBuffer == inq = <<>> /\ ~vchanOpen

\* lines 232-234: vchan disconnected and everything received was processed
Disconnected == inq = <<>> /\ ~vchanOpen /\ stdin_buf = 0

\* the loop goes on after send_exit_code (the break of line 228 is missing)
AfterAllDone_NoBreak == "select"

\* line 228: the break that follows send_exit_code leaves the loop
AfterAllDone == "teardown"

\* the request is taken for pending whenever the flag is set at all
RequestPending_Sticky(requested) == requested >= 1

\* line 238: a single-socket request is pending
RequestPending(requested) == requested = 1

\* lines 199-256: reap, termination tests, single-socket request
LoopHead ==
    /\ pc = "loop"
    /\ LET reaped == child_exited = 1 /\ child_process_pid > 0
                         /\ WaitPidReaps(child_process_pid)
           cstatus == IF reaped THEN ExitStatusOf(wstatus) ELSE child_process_status
           t0 == FdState
           closeIn == reaped /\ stdin_fd >= 0
           t1 == IF closeIn     \* lines 207-215
                 THEN CloseToward(LoopCloses(SetBlock(t0, Sharers(stdin_fd)), stdin_fd),
                                  child_process_pid, stdin_fd, 1)
                 ELSE t0
           in1 == IF closeIn THEN NoFd ELSE stdin_fd
           done == AllDone(child_process_pid, cstatus, remote_process_status,
                           in1, stdout_fd, stderr_fd)
       IN /\ child_exited' = 0
          /\ child_process_status' = cstatus
          /\ reaps' = IF reaped THEN reaps + 1 ELSE reaps
          /\ child' = IF reaped THEN "reaped" ELSE child
          /\ stdin_fd' = in1
          /\ IF done
             THEN \* lines 225-228
                  /\ cstatus > 0 - 1 => CanSendExit
                  /\ IF cstatus > 0 - 1 /\ ~vchanOpen
                     THEN /\ pc' = "fatal"
                          /\ UNCHANGED <<exitCodes, sentAfterExit, space>>
                     ELSE /\ pc' = AfterAllDone
                          /\ IF cstatus > 0 - 1
                             THEN /\ exitCodes' = Append(exitCodes, cstatus)
                                  /\ sentAfterExit' = (sentAfterExit \/ exitCodes # <<>>)
                                  /\ space' = space - (HdrSize + StatusSize)
                             ELSE UNCHANGED <<exitCodes, sentAfterExit, space>>
                  /\ fdtab' = t1.tab /\ dblClose' = t1.dbl
                  /\ nonblock' = t1.nb /\ closedNonblock' = t1.cnb
                  /\ UNCHANGED <<stdout_fd, stdio_socket_requested, outN, dropped>>
             ELSE IF Disconnected
             THEN \* lines 232-236
                  /\ pc' = "teardown"
                  /\ fdtab' = t1.tab /\ dblClose' = t1.dbl
                  /\ nonblock' = t1.nb /\ closedNonblock' = t1.cnb
                  /\ UNCHANGED <<stdout_fd, stdio_socket_requested, outN, dropped,
                                 exitCodes, sentAfterExit, space>>
             ELSE IF RequestPending(stdio_socket_requested)
             THEN \* lines 238-256
                  /\ dblClose' = t1.dbl /\ closedNonblock' = t1.cnb
                  /\ UNCHANGED <<exitCodes, sentAfterExit, space>>
                  /\ IF stdout_fd # NoFd
                     THEN IF IsOpen(t1.tab, in1) /\ in1 # stdout_fd
                          THEN \* dup3 replaces what stdout_fd refers to
                               /\ fdtab' = [t1.tab EXCEPT
                                              ![stdout_fd] = DupKind(t1.tab, in1)]
                               /\ nonblock' = DupMode(t1.nb, in1, stdout_fd)
                               /\ dropped' = (dropped \/ outN > 0)
                               /\ outN' = 0
                               /\ stdio_socket_requested' = 2
                               /\ pc' = "select"
                               /\ UNCHANGED stdout_fd
                          ELSE /\ pc' = "aborted"
                               /\ fdtab' = t1.tab /\ nonblock' = t1.nb
                               /\ UNCHANGED <<stdout_fd, stdio_socket_requested, outN,
                                              dropped>>
                     ELSE LET nf == DupFd(t1.tab, in1)
                          IN IF nf < 3
                             THEN /\ pc' = "aborted"
                                  /\ fdtab' = t1.tab /\ nonblock' = t1.nb
                                  /\ UNCHANGED <<stdout_fd, stdio_socket_requested,
                                                 outN, dropped>>
                             ELSE /\ stdout_fd' = nf
                                  /\ fdtab' = [t1.tab EXCEPT
                                                 ![nf] = DupKind(t1.tab, in1)]
                                  /\ nonblock' = DupMode(t1.nb, in1, nf)
                                  /\ stdio_socket_requested' = 2
                                  /\ pc' = "select"
                                  /\ UNCHANGED <<outN, dropped>>
             ELSE /\ pc' = "select"
                  /\ fdtab' = t1.tab /\ dblClose' = t1.dbl
                  /\ nonblock' = t1.nb /\ closedNonblock' = t1.cnb
                  /\ UNCHANGED <<stdout_fd, stdio_socket_requested, outN, dropped,
                                 exitCodes, sentAfterExit, space>>
    /\ UNCHANGED <<type, data_protocol_version, exit_code, child_process_pid,
                   stdout_msg_type, remote_process_status, stderr_fd, rdOut, rdErr,
                   stdin_buf, vchanOpen, vchanClosed, inq, peerLeft, wstatus,
                   sigchldPending, usr1Armed, errN, outLeft, errLeft, localClosed,
                   helloSent, helloRecvd, dataSent, spawnFailed, loopRan, remoteExited>>
    /\ dupedOut' = (dupedOut \/ stdio_socket_requested' # stdio_socket_requested)

\* a read on the stream would not block: data or end-of-file
Readable(n) == n > 0 \/ localClosed

\* line 263: stdout_fd and stderr_fd are watched only with ring space
SpaceForFrame(sp) == sp > HdrSize

\* lines 259-290: build the fd sets and wait; SIGCHLD pending at entry is
\* delivered at once (sigchld_handler), otherwise pselect reports readiness
Select ==
    /\ pc = "select" /\ ~sigchldPending
    /\ rdOut' = (SpaceForFrame(space) /\ stdout_fd >= 0 /\ Readable(outN))
    /\ rdErr' = (SpaceForFrame(space) /\ stderr_fd >= 0 /\ Readable(errN))
    /\ pc' = "remote"
    /\ UNCHANGED <<type, data_protocol_version, exit_code, child_process_pid,
                   stdout_msg_type, child_exited, stdio_socket_requested,
                   child_process_status, remote_process_status, stdin_fd, stdout_fd,
                   stderr_fd, stdin_buf, envVars, histVars>>

\* lines 291-298: pselect fails with an error other than EINTR
SelectError ==
    /\ pc = "select"
    /\ pc' = "teardown"
    /\ UNCHANGED <<type, data_protocol_version, exit_code, child_process_pid,
                   stdout_msg_type, child_exited, stdio_socket_requested,
                   child_process_status, remote_process_status, stdin_fd, stdout_fd,
                   stderr_fd, rdOut, rdErr, stdin_buf, envVars, histVars>>

(* Remote-to-local pump (handle_remote_data): consumes whole frames until    *)
(* the queue is empty or a frame ends the call.  STDIN payload goes to the   *)
(* staging buffer while stdin_fd is open; a zero-length STDIN frame drains   *)
(* the buffer and reports REMOTE_EOF; EXIT_CODE stores the status and        *)
(* reports REMOTE_EXITED; any other type is REMOTE_ERROR.                    *)
\* end-of-file is reported with the staged payload still in the buffer
DrainOnEof_Keeps(buf) == buf

\* what is left in the staging buffer when the pump reports REMOTE_EOF: it
\* delivers the staged payload to the child before closing stdin
DrainOnEof(buf) == 0

RECURSIVE RemoteData(_, _, _)
RemoteData(q, buf, fd) ==
    IF q = <<>> THEN [rc |-> "OK", q |-> q, buf |-> buf, status |-> 0 - 1]
    ELSE LET m == Head(q)
         IN IF m.type = MSG_DATA_STDIN /\ m.len > 0
            THEN RemoteData(Tail(q), IF fd >= 0 THEN buf + m.len ELSE buf, fd)
            ELSE IF m.type = MSG_DATA_STDIN
            THEN [rc |-> "REMOTE_EOF", q |-> Tail(q), buf |-> DrainOnEof(buf),
                  status |-> 0 - 1]
            ELSE IF m.type = MSG_DATA_EXIT_CODE
            THEN [rc |-> "REMOTE_EXITED", q |-> Tail(q), buf |-> buf,
                  status |-> m.val]
            ELSE [rc |-> "REMOTE_ERROR", q |-> Tail(q), buf |-> buf,
                  status |-> 0 - 1]

\* the loop goes on after a remote exit report in every mode
ReturnsOnRemoteExit_Never(pid) == FALSE

\* lines 334-335: in service-connect mode REMOTE_EXITED returns at once
ReturnsOnRemoteExit(pid) == pid = 0

\* lines 302-337: handle_remote_data and the switch on its result
HandleRemote ==
    /\ pc = "remote"
    /\ \E accept \in BOOLEAN :
         LET r == RemoteData(inq, stdin_buf, stdin_fd)
             t0 == FdState
         IN /\ inq' = r.q
            /\ IF r.rc = "REMOTE_ERROR"
               THEN \* lines 316-318: handle_vchan_error("read")
                    /\ pc' = "fatal"
                    /\ stdin_buf' = r.buf
                    /\ UNCHANGED <<stdin_fd, stdout_fd, stderr_fd, fdtab, nonblock, dblClose, closedNonblock,
                                   remote_process_status, exit_code, dropped, outN,
                                   errN, remoteExited>>
               ELSE IF r.rc = "REMOTE_EOF"
               THEN \* the pump closed stdin toward the child; lines 319-321
                    /\ LET t1 == IF stdin_fd >= 0
                                 THEN CloseToward(t0, child_process_pid, stdin_fd, 1)
                                 ELSE t0
                       IN /\ fdtab' = t1.tab /\ dblClose' = t1.dbl
                          /\ nonblock' = t1.nb /\ closedNonblock' = t1.cnb
                    /\ stdin_fd' = NoFd
                    /\ stdin_buf' = r.buf
                    /\ pc' = "stdout"
                    /\ UNCHANGED <<stdout_fd, stderr_fd, remote_process_status,
                                   exit_code, dropped, outN, errN, remoteExited>>
               ELSE IF r.rc = "REMOTE_EXITED"
               THEN \* lines 322-336
                    /\ LET t1 == CloseToward(LoopCloses(t0, stdout_fd),
                                             child_process_pid, stdout_fd, 0)
                           t2 == DoClose(LoopCloses(t1, stderr_fd), stderr_fd)
                       IN /\ fdtab' = t2.tab /\ dblClose' = t2.dbl
                          /\ nonblock' = t2.nb /\ closedNonblock' = t2.cnb
                    /\ dropped' = (dropped \/ (stdout_fd >= 0 /\ outN > 0)
                                           \/ (stderr_fd >= 0 /\ errN > 0))
                    /\ outN' = 0 /\ errN' = 0
                    /\ stdout_fd' = NoFd /\ stderr_fd' = NoFd
                    /\ remote_process_status' = r.status
                    /\ remoteExited' = TRUE
                    /\ stdin_buf' = r.buf
                    /\ IF ReturnsOnRemoteExit(child_process_pid)
                       THEN /\ exit_code' = r.status
                            /\ pc' = "close"
                       ELSE /\ pc' = "stdout"
                            /\ UNCHANGED exit_code
                    /\ UNCHANGED stdin_fd
               ELSE /\ stdin_buf' = IF accept /\ stdin_fd >= 0 THEN 0 ELSE r.buf
                    /\ pc' = "stdout"
                    /\ UNCHANGED <<stdin_fd, stdout_fd, stderr_fd, fdtab, nonblock, dblClose, closedNonblock,
                                   remote_process_status, exit_code, dropped, outN,
                                   errN, remoteExited>>
    /\ UNCHANGED <<type, data_protocol_version, child_process_pid, stdout_msg_type,
                   child_exited, stdio_socket_requested, child_process_status, rdOut,
                   rdErr, vchanOpen, vchanClosed, space, peerLeft, child, wstatus,
                   sigchldPending, usr1Armed, outLeft, errLeft, localClosed, helloSent,
                   helloRecvd, dataSent, exitCodes, sentAfterExit, spawnFailed, loopRan, dupedOut,
                   reaps>>

(* Local-to-remote pump (handle_input): with room for a frame, reads up to   *)
(* min(ring space - header, chunk cap) bytes and sends them as one frame; on *)
(* a zero-byte read sends a zero-length frame unless same_socket suppresses  *)
(* it, and reports REMOTE_EOF; a failed send is REMOTE_ERROR.                *)
HandleInput(avail, sp, vopen, same_socket) ==
    IF sp <= HdrSize
    THEN [rc |-> "OK", read |-> 0, used |-> 0]
    ELSE IF avail > 0
    THEN IF vopen
         THEN LET k == Min(Min(avail, sp - HdrSize), MaxChunk)
              IN [rc |-> "OK", read |-> k, used |-> HdrSize + k]
         ELSE [rc |-> "REMOTE_ERROR", read |-> 0, used |-> 0]
    ELSE IF localClosed
    THEN IF same_socket THEN [rc |-> "REMOTE_EOF", read |-> 0, used |-> 0]
         ELSE IF vopen THEN [rc |-> "REMOTE_EOF", read |-> 0, used |-> HdrSize]
         ELSE [rc |-> "REMOTE_ERROR", read |-> 0, used |-> 0]
    ELSE [rc |-> "OK", read |-> 0, used |-> 0]

\* lines 342 and 355: the flag the loop hands to handle_input
SameSocketArg == stdio_socket_requested < 2

\* lines 338-350
HandleStdout ==
    /\ pc = "stdout"
    /\ IF stdout_fd >= 0 /\ rdOut
       THEN LET r == HandleInput(outN, space, vchanOpen, SameSocketArg)
                t1 == DoClose(FdState, stdout_fd)
            IN /\ outN' = outN - r.read
               /\ space' = space - r.used
               /\ dataSent' = (dataSent \/ r.used > 0)
               /\ sentAfterExit' = (sentAfterExit \/ (r.used > 0 /\ exitCodes # <<>>))
               /\ pc' = IF r.rc = "REMOTE_ERROR" THEN "fatal" ELSE "stderr"
               /\ IF r.rc = "REMOTE_EOF"
                  THEN /\ stdout_fd' = NoFd
                       /\ fdtab' = t1.tab /\ dblClose' = t1.dbl
                       /\ nonblock' = t1.nb /\ closedNonblock' = t1.cnb
                  ELSE UNCHANGED <<stdout_fd, fdtab, nonblock, dblClose, closedNonblock>>
       ELSE /\ pc' = "stderr"
            /\ UNCHANGED <<outN, space, dataSent, sentAfterExit, stdout_fd, fdtab, nonblock,
                           dblClose, closedNonblock>>
    /\ UNCHANGED <<type, data_protocol_version, exit_code, child_process_pid,
                   stdout_msg_type, child_exited, stdio_socket_requested,
                   child_process_status, remote_process_status, stdin_fd, stderr_fd,
                   rdOut, rdErr, stdin_buf, vchanOpen, vchanClosed, inq, peerLeft,
                   child, wstatus, sigchldPending, usr1Armed, errN, outLeft, errLeft,
                   localClosed, helloSent, helloRecvd, exitCodes, dropped, spawnFailed,
                   loopRan, dupedOut, remoteExited, reaps>>

\* lines 351-363
HandleStderr ==
    /\ pc = "stderr"
    /\ rdOut' = FALSE /\ rdErr' = FALSE    \* the next FD_ZERO, line 259
    /\ IF stderr_fd >= 0 /\ rdErr
       THEN LET r == HandleInput(errN, space, vchanOpen, SameSocketArg)
                t1 == DoClose(FdState, stderr_fd)
            IN /\ errN' = errN - r.read
               /\ space' = space - r.used
               /\ dataSent' = (dataSent \/ r.used > 0)
               /\ sentAfterExit' = (sentAfterExit \/ (r.used > 0 /\ exitCodes # <<>>))
               /\ pc' = IF r.rc = "REMOTE_ERROR" THEN "fatal" ELSE "loop"
               /\ IF r.rc = "REMOTE_EOF"
                  THEN /\ stderr_fd' = NoFd
                       /\ fdtab' = t1.tab /\ dblClose' = t1.dbl
                       /\ nonblock' = t1.nb /\ closedNonblock' = t1.cnb
                  ELSE UNCHANGED <<stderr_fd, fdtab, nonblock, dblClose, closedNonblock>>
       ELSE /\ pc' = "loop"
            /\ UNCHANGED <<errN, space, dataSent, sentAfterExit, stderr_fd, fdtab, nonblock,
                           dblClose, closedNonblock>>
    /\ UNCHANGED <<type, data_protocol_version, exit_code, child_process_pid,
                   stdout_msg_type, child_exited, stdio_socket_requested,
                   child_process_status, remote_process_status, stdin_fd, stdout_fd,
                   stdin_buf, vchanOpen, vchanClosed, inq, peerLeft,
                   child, wstatus, sigchldPending, usr1Armed, outN, outLeft, errLeft,
                   localClosed, helloSent, helloRecvd, exitCodes, dropped, spawnFailed,
                   loopRan, dupedOut, remoteExited, reaps>>

\* lines 393-395: process_child_io's return value after the loop
ReturnValue(pid, cstatus, rstatus) == IF pid = 0 THEN rstatus ELSE cstatus

\* lines 365-395: close what is still open, return the exit status
Teardown ==
    /\ pc = "teardown"
    /\ LET t0 == FdState
           t1 == IF stdout_fd # NoFd     \* lines 367-376
                 THEN CloseToward(LoopCloses(SetBlock(t0, Sharers(stdout_fd)), stdout_fd),
                                  child_process_pid, stdout_fd, 0)
                 ELSE t0
           t2 == IF stdin_fd # NoFd      \* lines 377-386
                 THEN CloseToward(LoopCloses(SetBlock(t1, Sharers(stdin_fd)), stdin_fd),
                                  child_process_pid, stdin_fd, 1)
                 ELSE t1
           t3 == IF stderr_fd # NoFd     \* lines 387-392
                 THEN DoClose(LoopCloses(SetBlock(t2, {stderr_fd}), stderr_fd), stderr_fd)
                 ELSE t2
       IN /\ fdtab' = t3.tab /\ dblClose' = t3.dbl
          /\ nonblock' = t3.nb /\ closedNonblock' = t3.cnb
    /\ dropped' = (dropped \/ (stdout_fd # NoFd /\ outN > 0)
                           \/ (stderr_fd # NoFd /\ errN > 0))
    /\ outN' = 0 /\ errN' = 0
    /\ stdout_fd' = NoFd /\ stdin_fd' = NoFd /\ stderr_fd' = NoFd
    /\ exit_code' = ReturnValue(child_process_pid, child_process_status,
                                remote_process_status)
    /\ pc' = "close"
    /\ UNCHANGED <<type, data_protocol_version, child_process_pid, stdout_msg_type,
                   child_exited, stdio_socket_requested, child_process_status,
                   remote_process_status, rdOut, rdErr, stdin_buf, vchanOpen,
                   vchanClosed, space, inq, peerLeft, child, wstatus, sigchldPending,
                   usr1Armed, outLeft, errLeft, localClosed, helloSent, helloRecvd,
                   dataSent, exitCodes, sentAfterExit, spawnFailed, loopRan, dupedOut, remoteExited, reaps>>

(* ------------------------------ behaviours ----------------------------- *)

Next ==
    \/ PeerSend \/ PeerDrain \/ PeerClose
    \/ ChildExit \/ ChildStops \/ LocalWriteOut \/ LocalWriteErr \/ LocalClose
    \/ sigchld_handler \/ sigusr1_handler
    \/ HandshakeSend \/ HandshakeRecv \/ PrepareAndSwitch
    \/ JustExec \/ SpawnOk \/ SpawnFail \/ PcioEntry
    \/ LoopHead \/ Select \/ SelectError
    \/ HandleRemote \/ HandleStdout \/ HandleStderr
    \/ Teardown \/ CloseVchan

Spec == Init /\ [][Next]_vars

(* ------------- execute-and-wait with a conforming, live peer ------------ *)

\* a frame a conforming peer sends: first a HELLO of peer-info size with a
\* supported version, afterwards STDIN data, STDIN end-of-file or EXIT_CODE
Conforming(m, first) ==
    IF first
    THEN m.type = MSG_HELLO /\ m.len = InfoSize /\ m.val >= QREXEC_DATA_MIN_VERSION
    ELSE m.type \in {MSG_DATA_STDIN, MSG_DATA_EXIT_CODE}

ConformingPeerSend ==
    /\ PeerSend
    /\ Conforming(inq'[Len(inq')], peerLeft = MaxPeerMsgs + 1)

\* the peer's HELLO, which handle_handshake blocks for
PeerHello == ConformingPeerSend /\ peerLeft = MaxPeerMsgs + 1

\* the mediator's own next step; the process is never suspended for good
MediatorStep ==
    \/ HandshakeSend \/ HandshakeRecv \/ PrepareAndSwitch \/ SpawnOk
    \/ PcioEntry \/ LoopHead \/ Select \/ HandleRemote \/ HandleStdout
    \/ HandleStderr \/ Teardown \/ CloseVchan

LiveInit == Init /\ type = MSG_EXEC_CMDLINE

\* the vchan stays open, the spawn succeeds, pselect does not fail
LiveNext ==
    \/ ConformingPeerSend \/ PeerDrain
    \/ ChildExit \/ LocalWriteOut \/ LocalWriteErr
    \/ sigchld_handler \/ sigusr1_handler
    \/ HandshakeSend \/ HandshakeRecv \/ PrepareAndSwitch \/ SpawnOk
    \/ PcioEntry \/ LoopHead \/ Select \/ HandleRemote \/ HandleStdout
    \/ HandleStderr \/ Teardown \/ CloseVchan

\* fair scheduling: the mediator keeps running, a pending SIGCHLD is
\* delivered once unblocked, the peer sends its HELLO and keeps draining the
\* ring, and the child exits (closing its ends of stdout and stderr)
LiveSpec ==
    /\ LiveInit /\ [][LiveNext]_vars
    /\ WF_vars(MediatorStep) /\ WF_vars(sigchld_handler)
    /\ WF_vars(PeerHello) /\ WF_vars(PeerDrain)
    /\ SF_vars(ChildExit)

(* ------------------- two sessions in one process ---------------------- *)

\* handle_data_client returns to its caller (lines 520-522), which starts
\* another session: handle_data_client in the same process, or
\* handle_new_process, whose forked child inherits the process's memory
\* (lines 494-507).  Locals, vchan, descriptors and peer are fresh; the
\* file-scope variables of lines 54-57 are what the first session left.
\* (A session of handle_new_process ends in exit(), line 509.)
NextSession ==
    /\ pc = "returned" /\ type = MSG_SERVICE_CONNECT
    /\ type' \in Modes
    /\ pc' = "hs_send"
    /\ data_protocol_version' = 0
    /\ exit_code' = 0
    /\ child_process_status' = 0 - 1
    /\ remote_process_status' = 0 - 1
    /\ \E c \in Configs :
          IF type' = MSG_SERVICE_CONNECT
          THEN /\ stdin_fd' = c.in /\ stdout_fd' = c.out /\ stderr_fd' = c.err
               /\ fdtab' = TabWith(c)
          ELSE /\ stdin_fd' = NoFd /\ stdout_fd' = NoFd /\ stderr_fd' = NoFd
               /\ fdtab' = EmptyTab
    /\ nonblock' = {} /\ closedNonblock' = FALSE
    /\ rdOut' = FALSE /\ rdErr' = FALSE
    /\ stdin_buf' = 0
    /\ vchanOpen' = TRUE /\ vchanClosed' = FALSE
    /\ space' = RingSize
    /\ inq' = <<>>
    /\ peerLeft' = MaxPeerMsgs + 1
    /\ child' = "none" /\ wstatus' = 0
    /\ sigchldPending' = FALSE /\ usr1Armed' = FALSE
    /\ outN' = 0 /\ errN' = 0 /\ outLeft' = MaxBytes /\ errLeft' = MaxBytes
    /\ localClosed' = FALSE
    /\ helloSent' = FALSE /\ helloRecvd' = FALSE /\ dataSent' = FALSE
    /\ exitCodes' = <<>> /\ sentAfterExit' = FALSE
    /\ dblClose' = FALSE /\ dropped' = FALSE
    /\ spawnFailed' = FALSE /\ loopRan' = FALSE /\ dupedOut' = FALSE /\ remoteExited' = FALSE
    /\ reaps' = 0
    /\ UNCHANGED <<stdout_msg_type, child_process_pid, child_exited,
                   stdio_socket_requested>>

\* sessions with a conforming peer on a vchan that stays open
ReplayNext ==
    \/ ConformingPeerSend \/ PeerDrain
    \/ ChildExit \/ LocalWriteOut \/ LocalClose
    \/ sigchld_handler \/ sigusr1_handler
    \/ HandshakeSend \/ HandshakeRecv \/ PrepareAndSwitch
    \/ JustExec \/ SpawnOk \/ PcioEntry
    \/ LoopHead \/ Select \/ HandleRemote \/ HandleStdout \/ HandleStderr
    \/ Teardown \/ CloseVchan
    \/ NextSession

ReplaySpec == Init /\ [][ReplayNext]_vars

(* ------------------------------- claims -------------------------------- *)

HandshakeFailed == data_protocol_version = 0 - 1

\* C1: once the handshake has failed, no STDIN/STDOUT/STDERR/EXIT_CODE frame
\* is sent, no child is spawned, the pump loop is not run, and the
\* dispatcher returns a nonzero code.
C1_FailedHandshakeAborts ==
    HandshakeFailed =>
        /\ ~dataSent /\ exitCodes = <<>>
        /\ child = "none" /\ ~loopRan
        /\ pc = "returned" => exit_code # 0

\* C2: at most one EXIT_CODE frame is sent in a session, and no frame of any
\* type follows it.
C2_ExitCodeOnceAndLast == Len(exitCodes) <= 1 /\ ~sentAfterExit

\* a session that sent data frames, then its EXIT_CODE, then closed the vchan
C2_Witness ==
    pc = "returned" /\ vchanClosed /\ Len(exitCodes) = 1 /\ dataSent

\* C3 as claimed: in execute-and-wait mode EXIT_CODE is sent only with
\* stdout_fd and stderr_fd closed, and no byte the child wrote was discarded
\* unread (every stream was read to end-of-file before it was closed).
C3_AllOutputBeforeExitCode ==
    (type = MSG_EXEC_CMDLINE /\ exitCodes # <<>>) =>
        stdout_fd = NoFd /\ stderr_fd = NoFd /\ ~dropped

\* C3 as amended: in execute-and-wait mode EXIT_CODE is sent only with
\* stdout_fd and stderr_fd closed; unread output is discarded before it only
\* when the remote reported its exit or a single-socket request replaced
\* stdout_fd.
C3_OutputBeforeExitCode ==
    (type = MSG_EXEC_CMDLINE /\ exitCodes # <<>>) =>
        /\ stdout_fd = NoFd /\ stderr_fd = NoFd
        /\ dropped => (remoteExited \/ stdio_socket_requested = 2)

\* the child wrote to stdout and stderr, all of it was framed and sent, and
\* the EXIT_CODE followed
C3_Witness ==
    /\ type = MSG_EXEC_CMDLINE /\ Len(exitCodes) = 1 /\ child = "reaped"
    /\ outLeft = 0 /\ errLeft = 0 /\ ~dropped /\ dataSent

\* the exit code the wait status stands for: 128 + N for a child killed by
\* signal N (core dumped or not), the exit status otherwise
StatusMeans(status, code) ==
    \/ \E c \in 0 .. 255 : status = WaitExited(c) /\ code = c
    \/ \E n \in 1 .. 64, core \in BOOLEAN :
          status = WaitSignaled(n, core) /\ code = 128 + n

\* C4: in execute-and-wait mode the stored exit code is assigned at most once,
\* is 128 + N for a child killed by signal N and the exit status otherwise,
\* is the status of every EXIT_CODE frame sent, and is what process_child_io
\* returns.
C4_ExitCodeOfChild ==
    type = MSG_EXEC_CMDLINE =>
        /\ reaps <= 1
        /\ reaps = 1 => StatusMeans(wstatus, child_process_status)
        /\ reaps = 0 /\ loopRan => child_process_status = 0 - 1
        /\ exitCodes # <<>> => exitCodes = <<child_process_status>>
        /\ pc \in {"close", "returned"} => exit_code = child_process_status

\* a child killed by SIGSEGV: EXIT_CODE(139) was sent and 139 returned
C4_Witness ==
    /\ type = MSG_EXEC_CMDLINE /\ pc = "returned"
    /\ wstatus = WaitSignaled(11, TRUE)
    /\ exitCodes = <<139>> /\ exit_code = 139

\* a descriptor the session used is still open and was not half-closed
Leaked(fd) == fd \in Fds /\ fd >= 3 /\ fdtab[fd] \in {"pipe", "sock"}

\* C5: when process_child_io has returned, stdin_fd, stdout_fd and stderr_fd
\* hold the closed sentinel, every descriptor was closed or half-closed, and
\* no descriptor was closed twice.
C5_AllFdsClosedAtReturn ==
    (loopRan /\ pc \in {"close", "returned"}) =>
        /\ stdin_fd = NoFd /\ stdout_fd = NoFd /\ stderr_fd = NoFd
        /\ \A fd \in Fds : ~Leaked(fd)
        /\ ~dblClose

\* C6: in service-connect mode, once an inbound EXIT_CODE(c) was consumed the
\* fd read from and the fd written to are both closed, pumping has stopped,
\* and c is returned.
C6_RemoteExitClosesBothPipes ==
    (type = MSG_SERVICE_CONNECT /\ remoteExited) =>
        /\ pc \in {"close", "returned"}
        /\ exit_code = remote_process_status
        /\ stdin_fd = NoFd /\ stdout_fd = NoFd

C8_SpawnFailureReturnsNonzero ==
    spawnFailed =>
        /\ exitCodes = <<>> /\ ~loopRan
        /\ Terminal => (pc = "returned" /\ exit_code # 0)

\* what the handshake is to return for a first frame: min(local, peer) when
\* the frame is a HELLO of peer-info size and that minimum is at least v2
Negotiated(m) ==
    IF /\ m.type = MSG_HELLO /\ m.len = InfoSize
       /\ Min(QREXEC_PROTOCOL_VERSION, m.val) >= QREXEC_PROTOCOL_V2
    THEN Min(QREXEC_PROTOCOL_VERSION, m.val)
    ELSE 0 - 1

\* C9: handle_handshake receives only after its own HELLO went out, and on
\* the peer's first frame it returns min(local, peer version) if the frame
\* is a HELLO of peer-info size and the minimum is at least v2, and fails
\* otherwise (as it does when the vchan closes before any frame arrives).
C9_Handshake ==
    /\ [](helloRecvd \/ pc = "hs_recv" => helloSent)
    /\ [][(pc = "hs_recv" /\ pc' # "hs_recv") =>
            /\ pc' = "dispatch"
            /\ data_protocol_version' =
                  IF inq # <<>> THEN Negotiated(Head(inq)) ELSE 0 - 1]_vars

\* a peer of the older version v2: the minimum, the peer's version, is chosen
C9_Witness ==
    /\ pc = "dispatch" /\ helloSent /\ helloRecvd /\ peerLeft = MaxPeerMsgs
    /\ data_protocol_version = QREXEC_PROTOCOL_V2

\* C10: in execute-and-wait mode, under fair scheduling, with the child
\* eventually exiting, its stdout and stderr reaching end-of-file and the
\* vchan staying open with ring space, the loop eventually reaps the child,
\* sends EXIT_CODE and returns.
C10_EventuallyReturns ==
    <>(pc = "returned" /\ child = "reaped" /\ Len(exitCodes) = 1)

\* C11: a session behaves as a first session does, whatever ran before it
\* in the process: process_child_io is entered with no single-socket
\* request already applied (so the end-of-file frame of stdout is
\* suppressed only after a duplication made in this session), and in
\* execute-and-wait mode the child's stdout goes out as STDOUT frames.
C11_SessionsIndependent ==
    pc = "pcio_entry" =>
        /\ stdio_socket_requested # 2
        /\ type = MSG_EXEC_CMDLINE => stdout_msg_type = MSG_DATA_STDOUT

\* C12 as claimed: once process_child_io runs its loop, an fd variable that
\* holds the closed sentinel never becomes open again.
C12_FdsNeverReopen ==
    [][loopRan =>
          /\ stdin_fd = NoFd => stdin_fd' = NoFd
          /\ stdout_fd = NoFd => stdout_fd' = NoFd
          /\ stderr_fd = NoFd => stderr_fd' = NoFd]_vars

\* C12 as amended: stdin_fd and stderr_fd never become open again; stdout_fd
\* does only when the loop services a pending single-socket request (the
\* flag goes from 1 to 2) and stdin_fd is open to be duplicated.
C12_FdsReopenOnlyByRequest ==
    [][loopRan =>
          /\ stdin_fd = NoFd => stdin_fd' = NoFd
          /\ stderr_fd = NoFd => stderr_fd' = NoFd
          /\ (stdout_fd = NoFd /\ stdout_fd' # NoFd) =>
                /\ stdio_socket_requested = 1 /\ stdio_socket_requested' = 2
                /\ stdin_fd' # NoFd /\ stdout_fd' >= 3]_vars

\* stdout_fd was closed on the peer's EXIT_CODE and a single-socket request
\* serviced afterwards opened it again as a duplicate of stdin_fd
C12_Witness ==
    /\ type = MSG_EXEC_CMDLINE /\ remoteExited
    /\ stdout_fd >= 3 /\ stdin_fd # NoFd /\ stderr_fd = NoFd
    /\ stdio_socket_requested = 2

\* handle_input is about to be invoked for stdout_fd / for stderr_fd
InvokesStdoutPump == pc = "stdout" /\ stdout_fd >= 0 /\ rdOut
InvokesStderrPump == pc = "stderr" /\ stderr_fd >= 0 /\ rdErr

\* C13: whenever handle_input is invoked, for stdout_fd or for stderr_fd,
\* the free outbound space of the vchan is greater than the header size.
C13_PumpInvokedWithSpace ==
    (InvokesStdoutPump \/ InvokesStderrPump) => space > HdrSize

C15_ReapRaceFree ==
    /\ [](~(child = "zombie" /\ child_exited = 0 /\ ~sigchldPending))
    /\ [][(child_exited = 0 /\ child_exited' = 1) =>
            pc \in {"pcio_entry", "select"}]_vars
    /\ [][(pc = "loop" /\ pc' # "loop") =>
            /\ child_exited' = 0
            /\ (child' = "reaped") =
                  (child = "reaped" \/ (child = "zombie" /\ child_exited = 1))]_vars

\* the child exited while the loop was inside pselect: SIGCHLD is pending,
\* the flag is still 0 and the child is not yet reaped
C15_Witness ==
    /\ type = MSG_EXEC_CMDLINE /\ pc = "select" /\ child = "zombie"
    /\ child_exited = 0 /\ sigchldPending /\ reaps = 0

\* C16: whenever the loop invokes the local-to-remote pump, the same-socket
\* flag it passes is true iff stdout_fd was duplicated from stdin_fd (at loop
\* entry because the two were equal, or by an applied single-socket request),
\* and false otherwise.
C16_SameSocketFlag ==
    (InvokesStdoutPump \/ InvokesStderrPump) => (SameSocketArg <=> dupedOut)

\* C17: every close or half-close of stdin_fd, stdout_fd or stderr_fd that the
\* loop performs (on child reap, on remote exit, in teardown) finds the
\* descriptor already restored to blocking mode.
C17_BlockingBeforeClose == ~closedNonblock

\* the "all done" test of the iteration just run came out false
NotAllDoneAfter ==
    ~AllDone(child_process_pid, child_process_status', remote_process_status,
             stdin_fd', stdout_fd, stderr_fd)

\* C18: when at the termination test the vchan has no pending inbound data, is
\* closed, and the stdin staging buffer is empty, the loop is left for
\* teardown even with the child unreaped or fds open, and no EXIT_CODE frame
\* is sent; the loop is not left this way while inbound data is pending or the
\* staging buffer is non-empty; teardown then closes every remaining fd.
C18_DisconnectedExit ==
    /\ [][(pc = "loop" /\ pc' # "loop" /\ NotAllDoneAfter
            /\ inq = <<>> /\ ~vchanOpen /\ stdin_buf = 0) =>
              (pc' = "teardown" /\ exitCodes' = exitCodes)]_vars
    /\ [][(pc = "loop" /\ NotAllDoneAfter /\ pc' = "teardown") =>
              (inq = <<>> /\ ~vchanOpen /\ stdin_buf = 0)]_vars
    /\ [][(pc = "teardown" /\ pc' # "teardown") =>
              /\ stdin_fd' = NoFd /\ stdout_fd' = NoFd /\ stderr_fd' = NoFd
              /\ \A fd \in {stdin_fd, stdout_fd, stderr_fd} \cap Fds :
                    fdtab'[fd] \in {"free", "shut"} \/ fd < 3
              /\ exitCodes' = exitCodes]_vars

\* the loop was left by the disconnected exit with the child still running,
\* stdin_fd and stdout_fd open and no EXIT_CODE frame sent
C18_Witness ==
    /\ pc = "teardown" /\ type = MSG_EXEC_CMDLINE /\ child = "running"
    /\ stdin_fd # NoFd /\ stdout_fd # NoFd
    /\ ~vchanOpen /\ inq = <<>> /\ stdin_buf = 0 /\ exitCodes = <<>>

\* C19: in service-connect mode (child_process_pid = 0) no EXIT_CODE frame is
\* ever sent: the local status starts at 0, yet the all-done test never comes
\* out true inside the loop, because a remote exit report returns at once.
C19_ServiceConnectSendsNoExitCode ==
    (type = MSG_SERVICE_CONNECT) =>
        /\ exitCodes = <<>>
        /\ loopRan => (child_process_pid = 0 /\ child_process_status = 0)
        /\ pc \in {"loop", "select", "remote", "stdout", "stderr"} =>
              remote_process_status = 0 - 1

\* a service-connect session returned on the peer's exit report, nothing sent
C19_Witness ==
    /\ type = MSG_SERVICE_CONNECT /\ pc = "returned" /\ remoteExited
    /\ child_process_status = 0 /\ exit_code = remote_process_status
    /\ exitCodes = <<>>

\* the flag moves only 0 -> 1 -> 2
FlagMonotone ==
    [][stdio_socket_requested' # stdio_socket_requested =>
          \/ stdio_socket_requested = 0 /\ stdio_socket_requested' = 1
          \/ stdio_socket_requested = 1 /\ stdio_socket_requested' = 2]_vars

\* the loop serviced a pending request with stdin_fd already closed: the
\* duplication failed and the process aborted (lines 246-248, 253-254)
ServicedAfterStdinClosed ==
    pc = "aborted" /\ loopRan /\ stdio_socket_requested = 1 /\ stdin_fd = NoFd

\* C20: a single-socket request is applied at most once per session and only
\* while stdin_fd is open: the flag moves only 0 -> 1 -> 2, and the loop never
\* services a pending request after stdin_fd was closed.
C20_RequestAppliedWhileOpen ==
    FlagMonotone /\ [](~ServicedAfterStdinClosed)

====
